---- MODULE Spec2Model ----
(***************************************************************************)
(* Model of pkg/frontend/nvme_controller.go: the NVMe controller registry  *)
(* of the Marvell bridge (Create, Delete, Update, List, Get, Stats) and    *)
(* the backend JSON-RPC channel it drives.                                 *)
(***************************************************************************)
EXTENDS Integers, Sequences, FiniteSets, TLC

VARIABLES
    Controllers,   \* s.Controllers : resource name -> stored NvmeController
    Subsystems,    \* s.Subsystems  : subsystem key -> NvmeSubsystem (read only here)
    Pagination,    \* s.Pagination  : page token -> resume offset
    nGen,          \* number of system-generated resource ids registered so far
    last,          \* the request served by the latest step, with its outcome
    hist,          \* per name: latest successful Create / Delete ("none" if neither)
    chain,         \* the List chain a client is following through next-page tokens
    assigned,      \* per registered name: the CtrlrID of the backend result it was stored from
    procs,         \* concurrent requests: where each one is in its handler
    rpcLog         \* the backend calls of the concurrent requests, in the order made

vars == <<Controllers, Subsystems, Pagination, nGen, last, hist, chain, assigned, procs, rpcLog>>

----------------------------------------------------------------------------
(* Bounds of the model *)

\* longest controller id list the backend returns
MaxLen == 2
\* number of page tokens uuid.New() can hand out
MaxTokens == 1
\* number of resource ids of resourceid.NewSystemGenerated() that get registered
MaxGen == 1

----------------------------------------------------------------------------
(* Values *)

Nil == [kind |-> "nil"]

TokenName(i) == <<"tok-1", "tok-2", "tok-3", "tok-4">>[i]
GenName(i) == <<"gen-1", "gen-2", "gen-3">>[i]

\* subsystem keys the subsystem registry may hold
SubsystemKeys == {"subsys0", "subsys1"}
\* A Go int of a backend result (64 bit) is the pair hi, lo standing for
\* hi * 2^31 + lo with 0 <= lo < 2^31
GoInt(hi, lo) == [hi |-> hi, lo |-> lo]
\* controller ids the backend answers a create/update with: 5 and 2^32 + 7
BackendIds == {GoInt(0, 5), GoInt(2, 7)}
\* controller ids of the backend's controller list: 1, 2 and 2^32 + 1
ListIds == {GoInt(0, 1), GoInt(0, 2), GoInt(2, 1)}

\* a conversion that keeps the low 31 bits and drops the sign bit
Int32NoWrap(x) == x.lo

\* the Go conversion int32(x) of a Go int: the low 32 bits, two's complement
Int32(x) == IF x.hi % 2 = 0 THEN x.lo ELSE (x.lo - 2147483647) - 1

ResourceIDToVolumeName(resourceID) == "//storage.opiproject.org/volumes/" \o resourceID

ValidateUserSettable(id) == id \in {"a"}

\* the resource names controllers can be registered under
ControllerNames ==
    {ResourceIDToVolumeName("a")} \cup {ResourceIDToVolumeName(GenName(i)) : i \in 1..MaxGen}

\* resource names a client may send to Delete / Get / Stats
NameInputs == ControllerNames \cup {"", "bad name"}

resourcenameValidate(name) == name \notin {"", "bad name"}

NvmeControllerSpec(sub) ==
    [SubsystemId |-> [Value |-> sub],
     PcieId |-> [PortId |-> 0, PhysicalFunction |-> 1, VirtualFunction |-> 0],
     NvmeControllerId |-> 1,
     MaxNsq |-> 4, MaxNcq |-> 4, Sqes |-> 6]

NvmeSubsystem(key) == [Name |-> key, Spec |-> [Nqn |-> "nqn.2022-09.io.spdk:" \o key]]

SeqsUpTo(S, n) == UNION {[1..k -> S] : k \in 0..n}

----------------------------------------------------------------------------
(* The backend channel: s.rpc.Call(method, params, &result) *)

RpcErr == [err |-> TRUE, result |-> Nil]

CreateCtrlrOutcomes ==
    {RpcErr, [err |-> FALSE, result |-> [Status |-> 1, CtrlrID |-> GoInt(0, 0)]]}
        \cup {[err |-> FALSE, result |-> [Status |-> 0, CtrlrID |-> c]] : c \in BackendIds}

RemoveCtrlrOutcomes ==
    {RpcErr} \cup {[err |-> FALSE, result |-> [Status |-> st]] : st \in {0, 1}}

Call(method, params, rpc) ==
    [method |-> method, params |-> params, err |-> rpc.err, result |-> rpc.result]

\* what a handler hands back: the gRPC outcome, the backend calls it made,
\* and the registry it leaves behind
Ret(err, resp, calls, ctrls, pag) ==
    [err |-> err, resp |-> resp, calls |-> calls, ctrls |-> ctrls, pag |-> pag]

Fail(err, calls) == Ret(err, Nil, calls, Controllers, Pagination)

\* a lookup that takes every key for a registered subsystem
SubsystemAssumed(key) ==
    IF key \in DOMAIN Subsystems
    THEN [ok |-> TRUE, Nqn |-> Subsystems[key].Spec.Nqn]
    ELSE [ok |-> TRUE, Nqn |-> ""]

SubsystemLookup(key) ==
    IF key \in DOMAIN Subsystems
    THEN [ok |-> TRUE, Nqn |-> Subsystems[key].Spec.Nqn]
    ELSE [ok |-> FALSE, Nqn |-> ""]

\* a registry write that is forgotten
StoreNothing(ctrls, name, response) == ctrls

StoreController(ctrls, name, response) ==
    [n \in DOMAIN ctrls \cup {name} |-> IF n = name THEN response ELSE ctrls[n]]

\* a registry removal that is forgotten
RemoveNothing(ctrls, name) == ctrls

RemoveController(ctrls, name) ==
    [n \in DOMAIN ctrls \ {name} |-> ctrls[n]]

\* a clone that takes the backend's controller id but keeps the request's status
CloneKeepsStatus(controller, CtrlrID) ==
    [controller EXCEPT !.Spec.NvmeControllerId = Int32(CtrlrID)]

\* server.ProtoClone of the controller, with the backend's controller id and
\* the active status
ActiveClone(controller, CtrlrID) ==
    [controller EXCEPT !.Spec.NvmeControllerId = Int32(CtrlrID), !.Status = [Active |-> TRUE]]

CreateCtrlrParams(subsys, spec) ==
    [Subnqn |-> subsys.Nqn,
     PcieDomainID |-> spec.PcieId.PortId,
     PfID |-> spec.PcieId.PhysicalFunction,
     VfID |-> spec.PcieId.VirtualFunction,
     CtrlrID |-> spec.NvmeControllerId,
     MaxNsq |-> spec.MaxNsq,
     MaxNcq |-> spec.MaxNcq,
     Mqes |-> spec.Sqes]

----------------------------------------------------------------------------
(* CreateNvmeController *)

\* well-formed requests with every id and subsystem, and one request for each
\* way of being malformed
CreateRequests ==
    [NvmeControllerId : {"", "a"},
     NvmeController : [Name : {"ignored"}, Spec : {NvmeControllerSpec(sub) : sub \in SubsystemKeys},
                       Status : {[Active |-> FALSE]}]]
    \cup {[NvmeControllerId |-> "a", NvmeController |-> Nil],
          [NvmeControllerId |-> "a",
           NvmeController |-> [Name |-> "ignored", Spec |-> Nil, Status |-> [Active |-> FALSE]]],
          [NvmeControllerId |-> "a",
           NvmeController |-> [Name |-> "ignored", Spec |-> NvmeControllerSpec(""),
                               Status |-> [Active |-> FALSE]]],
          [NvmeControllerId |-> "Bad_Id",
           NvmeController |-> [Name |-> "ignored", Spec |-> NvmeControllerSpec("subsys0"),
                               Status |-> [Active |-> FALSE]]]}

CreateProcedure == "mrvl_nvm_subsys_create_ctrlr"

\* a Create that resolves the subsystem before it looks for a registered name
CreateResolvesFirst(in, gen, rpc) ==
    IF in.NvmeController = Nil
    THEN Fail("ValidationError", <<>>)
    ELSE IF in.NvmeController.Spec = Nil \/ in.NvmeController.Spec.SubsystemId.Value = ""
    THEN Fail("InvalidArgument", <<>>)
    ELSE IF in.NvmeControllerId # "" /\ ~ValidateUserSettable(in.NvmeControllerId)
    THEN Fail("ValidationError", <<>>)
    ELSE
      LET resourceID == IF in.NvmeControllerId # "" THEN in.NvmeControllerId ELSE gen
          name == ResourceIDToVolumeName(resourceID)
          subsys == SubsystemLookup(in.NvmeController.Spec.SubsystemId.Value)
          call == Call(CreateProcedure, CreateCtrlrParams(subsys, in.NvmeController.Spec), rpc)
          response == ActiveClone([in.NvmeController EXCEPT !.Name = name], rpc.result.CtrlrID)
      IN
        IF ~subsys.ok
        THEN Fail("NotFound", <<>>)
        ELSE IF name \in DOMAIN Controllers
        THEN Ret("OK", Controllers[name], <<>>, Controllers, Pagination)
        ELSE IF rpc.err
        THEN Fail("Transport", <<call>>)
        ELSE IF rpc.result.Status # 0
        THEN Fail("InvalidArgument", <<call>>)
        ELSE Ret("OK", response, <<call>>, StoreController(Controllers, name, response), Pagination)

CreateNvmeController(in, gen, rpc) ==
    IF in.NvmeController = Nil
    THEN Fail("ValidationError", <<>>)
    ELSE IF in.NvmeController.Spec = Nil \/ in.NvmeController.Spec.SubsystemId.Value = ""
    THEN Fail("InvalidArgument", <<>>)
    ELSE IF in.NvmeControllerId # "" /\ ~ValidateUserSettable(in.NvmeControllerId)
    THEN Fail("ValidationError", <<>>)
    ELSE
      LET resourceID == IF in.NvmeControllerId # "" THEN in.NvmeControllerId ELSE gen
          name == ResourceIDToVolumeName(resourceID)
          subsys == SubsystemLookup(in.NvmeController.Spec.SubsystemId.Value)
          call == Call(CreateProcedure, CreateCtrlrParams(subsys, in.NvmeController.Spec), rpc)
          response == ActiveClone([in.NvmeController EXCEPT !.Name = name], rpc.result.CtrlrID)
      IN
        IF name \in DOMAIN Controllers
        THEN Ret("OK", Controllers[name], <<>>, Controllers, Pagination)
        ELSE IF ~subsys.ok
        THEN Fail("NotFound", <<>>)
        ELSE IF rpc.err
        THEN Fail("Transport", <<call>>)
        ELSE IF rpc.result.Status # 0
        THEN Fail("InvalidArgument", <<call>>)
        ELSE Ret("OK", response, <<call>>, StoreController(Controllers, name, response), Pagination)

\* the name Create works on: the canonical name of the resolved resource id
CreateName(in, gen) ==
    ResourceIDToVolumeName(IF in.NvmeControllerId # "" THEN in.NvmeControllerId ELSE gen)

----------------------------------------------------------------------------
(* DeleteNvmeController *)

DeleteRequests == [Name : NameInputs, AllowMissing : BOOLEAN]

RemoveProcedure == "mrvl_nvm_subsys_remove_ctrlr"

\* a Delete that does not honour allow-missing
DeleteMissingFails(in) == Fail("Error", <<>>)

DeleteMissing(in) ==
    IF in.AllowMissing
    THEN Ret("OK", [kind |-> "Empty"], <<>>, Controllers, Pagination)
    ELSE Fail("Error", <<>>)

\* a Delete that unregisters the controller before it looks at the backend status
DeleteRemovesFirst(in, rpc) ==
    IF in.Name = ""
    THEN Fail("ValidationError", <<>>)
    ELSE IF ~resourcenameValidate(in.Name)
    THEN Fail("ValidationError", <<>>)
    ELSE IF in.Name \notin DOMAIN Controllers
    THEN DeleteMissing(in)
    ELSE
      LET controller == Controllers[in.Name]
          subsys == SubsystemLookup(controller.Spec.SubsystemId.Value)
          params == [Subnqn |-> subsys.Nqn, CtrlrID |-> controller.Spec.NvmeControllerId, Force |-> 1]
          call == Call(RemoveProcedure, params, rpc)
          removed == RemoveController(Controllers, controller.Name)
      IN
        IF ~subsys.ok
        THEN Fail("NotFound", <<>>)
        ELSE IF rpc.err
        THEN Fail("Transport", <<call>>)
        ELSE IF rpc.result.Status # 0
        THEN Ret("InvalidArgument", Nil, <<call>>, removed, Pagination)
        ELSE Ret("OK", [kind |-> "Empty"], <<call>>, removed, Pagination)

DeleteNvmeController(in, rpc) ==
    IF in.Name = ""
    THEN Fail("ValidationError", <<>>)
    ELSE IF ~resourcenameValidate(in.Name)
    THEN Fail("ValidationError", <<>>)
    ELSE IF in.Name \notin DOMAIN Controllers
    THEN DeleteMissing(in)
    ELSE
      LET controller == Controllers[in.Name]
          subsys == SubsystemLookup(controller.Spec.SubsystemId.Value)
          params == [Subnqn |-> subsys.Nqn, CtrlrID |-> controller.Spec.NvmeControllerId, Force |-> 1]
          call == Call(RemoveProcedure, params, rpc)
      IN
        IF ~subsys.ok
        THEN Fail("NotFound", <<>>)
        ELSE IF rpc.err
        THEN Fail("Transport", <<call>>)
        ELSE IF rpc.result.Status # 0
        THEN Fail("InvalidArgument", <<call>>)
        ELSE Ret("OK", [kind |-> "Empty"], <<call>>,
                 RemoveController(Controllers, controller.Name), Pagination)

----------------------------------------------------------------------------
(* UpdateNvmeController *)

fieldmaskValidate(mask) == \A i \in 1..Len(mask) : mask[i] \in {"*", "spec", "spec.max_nsq"}

UpdateRequests ==
    [NvmeController : [Name : ControllerNames,
                       Spec : {NvmeControllerSpec(sub) : sub \in SubsystemKeys \cup {""}},
                       Status : {[Active |-> FALSE]}],
     UpdateMask : {<<"*">>},
     AllowMissing : {FALSE}]
    \cup [NvmeController : [Name : ControllerNames,
                            Spec : {NvmeControllerSpec("subsys0")},
                            Status : {[Active |-> FALSE]}],
          UpdateMask : {<<"*">>},
          AllowMissing : {TRUE}]
    \cup {[NvmeController |-> Nil, UpdateMask |-> <<"*">>, AllowMissing |-> FALSE],
          [NvmeController |-> [Name |-> "bad name", Spec |-> NvmeControllerSpec("subsys0"),
                               Status |-> [Active |-> FALSE]],
           UpdateMask |-> <<"*">>, AllowMissing |-> FALSE],
          [NvmeController |-> [Name |-> ResourceIDToVolumeName("a"), Spec |-> NvmeControllerSpec("subsys0"),
                               Status |-> [Active |-> FALSE]],
           UpdateMask |-> <<"no_such_field">>, AllowMissing |-> FALSE]}

UpdateProcedure == "mrvl_nvm_subsys_update_ctrlr"

\* an upsert: with AllowMissing set, a missing controller is created
UpdateMissingUpserts(in) ==
    IF in.AllowMissing
    THEN LET response == ActiveClone(in.NvmeController, GoInt(0, 0))
         IN Ret("OK", response, <<>>,
                StoreController(Controllers, in.NvmeController.Name, response), Pagination)
    ELSE Fail("NotFound", <<>>)

\* the named controller is not registered: AllowMissing is only logged
UpdateMissing(in) == Fail("NotFound", <<>>)

UpdateNvmeController(in, rpc) ==
    IF in.NvmeController = Nil
    THEN Fail("ValidationError", <<>>)
    ELSE IF ~resourcenameValidate(in.NvmeController.Name)
    THEN Fail("ValidationError", <<>>)
    ELSE IF in.NvmeController.Name \notin DOMAIN Controllers
    THEN UpdateMissing(in)
    ELSE IF ~fieldmaskValidate(in.UpdateMask)
    THEN Fail("ValidationError", <<>>)
    ELSE
      LET subsys == SubsystemLookup(in.NvmeController.Spec.SubsystemId.Value)
          call == Call(UpdateProcedure, CreateCtrlrParams(subsys, in.NvmeController.Spec), rpc)
          response == ActiveClone(in.NvmeController, rpc.result.CtrlrID)
      IN
        IF ~subsys.ok
        THEN Fail("NotFound", <<>>)
        ELSE IF rpc.err
        THEN Fail("Transport", <<call>>)
        ELSE IF rpc.result.Status # 0
        THEN Fail("InvalidArgument", <<call>>)
        ELSE Ret("OK", response, <<call>>,
                 StoreController(Controllers, in.NvmeController.Name, response), Pagination)

----------------------------------------------------------------------------
(* ListNvmeControllers *)

Tokens == {TokenName(i) : i \in 1..MaxTokens}

\* "tok-0" is a token the server never minted
PageTokens == Tokens \cup {"", "tok-0"}

\* the List requests of the registry specification: pages of one controller
ListRequests ==
    [Parent : {"subsys0"}, PageSize : {1}, PageToken : PageTokens]
    \cup {[Parent |-> "", PageSize |-> 1, PageToken |-> ""],
          [Parent |-> "subsys0", PageSize |-> -1, PageToken |-> ""]}

\* the List requests of the pagination specification: every page size
PageRequests ==
    [Parent : {"subsys0"}, PageSize : {-1, 0, 1, 2}, PageToken : PageTokens]
    \cup {[Parent |-> "", PageSize |-> 1, PageToken |-> ""]}

ListProcedure == "mrvl_nvm_subsys_get_ctrlr_list"

CtrlrIDLists == SeqsUpTo({[CtrlrID |-> id] : id \in ListIds}, MaxLen)

GetCtrlrListOutcomes ==
    {RpcErr, [err |-> FALSE, result |-> [Status |-> 1, CtrlrIDList |-> <<>>]]}
        \cup {[err |-> FALSE, result |-> [Status |-> 0, CtrlrIDList |-> l]] : l \in CtrlrIDLists}

\* the backend of the registry specification lists two controllers, unsorted
TwoCtrlrListOutcomes ==
    {RpcErr, [err |-> FALSE, result |-> [Status |-> 1, CtrlrIDList |-> <<>>]],
     [err |-> FALSE, result |-> [Status |-> 0,
        CtrlrIDList |-> <<[CtrlrID |-> GoInt(0, 2)], [CtrlrID |-> GoInt(0, 1)]>>]]}

\* server.ExtractPagination: the page size (0 is the default page size, sizes
\* above the maximum are cut to it) and the offset recorded under the token
ExtractPagination(pageSize, pageToken, pagination) ==
    LET size == IF pageSize = 0 THEN 50 ELSE IF pageSize > 250 THEN 250 ELSE pageSize
    IN IF pageSize < 0
       THEN [err |-> "InvalidArgument", size |-> -1, offset |-> -1]
       ELSE IF pageToken = ""
       THEN [err |-> "OK", size |-> size, offset |-> 0]
       ELSE IF pageToken \notin DOMAIN pagination
       THEN [err |-> "NotFound", size |-> -1, offset |-> -1]
       ELSE [err |-> "OK", size |-> size, offset |-> pagination[pageToken]]

Min(a, b) == IF a < b THEN a ELSE b

\* server.LimitPagination: the window [offset, offset+size) of the list, and
\* whether elements remain beyond it
LimitPagination(result, offset, size) ==
    [list |-> SubSeq(result, offset + 1, Min(offset + size, Len(result))),
     hasMoreElements |-> offset + size < Len(result)]

RECURSIVE Insert(_, _)
Insert(c, sorted) ==
    IF sorted = <<>> THEN <<c>>
    ELSE IF c.Spec.NvmeControllerId < Head(sorted).Spec.NvmeControllerId
    THEN <<c>> \o sorted
    ELSE <<Head(sorted)>> \o Insert(c, Tail(sorted))

RECURSIVE sortNvmeControllers(_)
sortNvmeControllers(controllers) ==
    IF controllers = <<>> THEN <<>>
    ELSE Insert(Head(controllers), sortNvmeControllers(Tail(controllers)))

\* uuid.New().String(): a token no entry of the cursor table uses
NewToken(pagination) == TokenName(Cardinality(DOMAIN pagination) + 1)

StoreToken(pagination, token, offset) ==
    [t \in DOMAIN pagination \cup {token} |-> IF t = token THEN offset ELSE pagination[t]]

\* the response carries the controllers only: NextPageToken keeps its zero value
ListResponse(Blobarray, token) ==
    [NvmeControllers |-> Blobarray, NextPageToken |-> ""]

ListNvmeControllers(in, rpc) ==
    IF in.Parent = ""
    THEN Fail("ValidationError", <<>>)
    ELSE
      LET page == ExtractPagination(in.PageSize, in.PageToken, Pagination)
          subsys == SubsystemLookup(in.Parent)
          call == Call(ListProcedure, [Subnqn |-> subsys.Nqn], rpc)
          limited == LimitPagination(rpc.result.CtrlrIDList, page.offset, page.size)
          token == IF limited.hasMoreElements THEN NewToken(Pagination) ELSE ""
          Blobarray == [i \in 1..Len(limited.list) |->
                           [Spec |-> [NvmeControllerId |-> Int32(limited.list[i].CtrlrID)]]]
      IN
        IF page.err # "OK"
        THEN Fail(page.err, <<>>)
        ELSE IF ~subsys.ok
        THEN Fail("NotFound", <<>>)
        ELSE IF rpc.err
        THEN Fail("Transport", <<call>>)
        ELSE IF rpc.result.Status # 0
        THEN Fail("InvalidArgument", <<call>>)
        ELSE Ret("OK", ListResponse(sortNvmeControllers(Blobarray), token), <<call>>, Controllers,
                 IF limited.hasMoreElements
                 THEN StoreToken(Pagination, token, page.offset + page.size)
                 ELSE Pagination)

----------------------------------------------------------------------------
(* GetNvmeController *)

GetRequests == [Name : NameInputs]

\* a mistyped procedure name
GetProcedureMistyped == "mrvl_nvm_ctrlr_get_inf"

GetProcedure == "mrvl_nvm_ctrlr_get_info"

GetCtrlrInfoOutcomes ==
    {RpcErr} \cup {[err |-> FALSE, result |-> [Status |-> st]] : st \in {0, 1}}

\* a Get that drops the entry when the backend does not know the controller
GetEvicts(in, rpc) ==
    IF in.Name = ""
    THEN Fail("ValidationError", <<>>)
    ELSE IF ~resourcenameValidate(in.Name)
    THEN Fail("ValidationError", <<>>)
    ELSE IF in.Name \notin DOMAIN Controllers
    THEN Fail("Error", <<>>)
    ELSE
      LET controller == Controllers[in.Name]
          subsys == SubsystemLookup(controller.Spec.SubsystemId.Value)
          params == [Subnqn |-> subsys.Nqn, CtrlrID |-> controller.Spec.NvmeControllerId]
          call == Call(GetProcedure, params, rpc)
      IN
        IF ~subsys.ok
        THEN Fail("NotFound", <<>>)
        ELSE IF rpc.err
        THEN Fail("Transport", <<call>>)
        ELSE IF rpc.result.Status # 0
        THEN Ret("InvalidArgument", Nil, <<call>>, RemoveController(Controllers, in.Name), Pagination)
        ELSE Ret("OK",
                 [Name |-> in.Name,
                  Spec |-> [NvmeControllerId |-> controller.Spec.NvmeControllerId],
                  Status |-> [Active |-> TRUE]],
                 <<call>>, Controllers, Pagination)

GetNvmeController(in, rpc) ==
    IF in.Name = ""
    THEN Fail("ValidationError", <<>>)
    ELSE IF ~resourcenameValidate(in.Name)
    THEN Fail("ValidationError", <<>>)
    ELSE IF in.Name \notin DOMAIN Controllers
    THEN Fail("Error", <<>>)
    ELSE
      LET controller == Controllers[in.Name]
          subsys == SubsystemLookup(controller.Spec.SubsystemId.Value)
          params == [Subnqn |-> subsys.Nqn, CtrlrID |-> controller.Spec.NvmeControllerId]
          call == Call(GetProcedure, params, rpc)
      IN
        IF ~subsys.ok
        THEN Fail("NotFound", <<>>)
        ELSE IF rpc.err
        THEN Fail("Transport", <<call>>)
        ELSE IF rpc.result.Status # 0
        THEN Fail("InvalidArgument", <<call>>)
        ELSE Ret("OK",
                 [Name |-> in.Name,
                  Spec |-> [NvmeControllerId |-> controller.Spec.NvmeControllerId],
                  Status |-> [Active |-> TRUE]],
                 <<call>>, Controllers, Pagination)

----------------------------------------------------------------------------
(* NvmeControllerStats *)

StatsRequests == {[Id |-> Nil]} \cup {[Id |-> [Value |-> n]] : n \in NameInputs}

StatsProcedure == "mrvl_nvm_get_ctrlr_stats"

CtrlrStats(st, rb, rc, wb, wc, rl, wl) ==
    [Status |-> st, NumReadBytes |-> rb, NumReadCmds |-> rc, NumWriteBytes |-> wb,
     NumWriteCmds |-> wc, TotalReadLatencyInUs |-> rl, TotalWriteLatencyInUs |-> wl]

GetCtrlrStatsOutcomes ==
    {RpcErr,
     [err |-> FALSE, result |-> CtrlrStats(1, GoInt(0, 0), GoInt(0, 0), GoInt(0, 0),
                                           GoInt(0, 0), GoInt(0, 0), GoInt(0, 0))],
     [err |-> FALSE, result |-> CtrlrStats(0, GoInt(0, 1024), GoInt(0, 4), GoInt(1, 0),
                                           GoInt(2, 8), GoInt(0, 2147483647), GoInt(-1, 60))]}

\* the handler without the check of the backend status
StatsIgnoresStatus(in, rpc) ==
    IF in.Id = Nil
    THEN Fail("ValidationError", <<>>)
    ELSE IF ~resourcenameValidate(in.Id.Value)
    THEN Fail("ValidationError", <<>>)
    ELSE IF in.Id.Value \notin DOMAIN Controllers
    THEN Fail("Error", <<>>)
    ELSE
      LET controller == Controllers[in.Id.Value]
          subsys == SubsystemLookup(controller.Spec.SubsystemId.Value)
          params == [Subnqn |-> subsys.Nqn, CtrlrID |-> controller.Spec.NvmeControllerId]
          call == Call(StatsProcedure, params, rpc)
      IN
        IF ~subsys.ok
        THEN Fail("NotFound", <<>>)
        ELSE IF rpc.err
        THEN Fail("Transport", <<call>>)
        ELSE Ret("OK",
                 [Stats |-> [ReadBytesCount |-> Int32(rpc.result.NumReadBytes),
                             ReadOpsCount |-> Int32(rpc.result.NumReadCmds),
                             WriteBytesCount |-> Int32(rpc.result.NumWriteBytes),
                             WriteOpsCount |-> Int32(rpc.result.NumWriteCmds),
                             ReadLatencyTicks |-> Int32(rpc.result.TotalReadLatencyInUs),
                             WriteLatencyTicks |-> Int32(rpc.result.TotalWriteLatencyInUs)]],
                 <<call>>, Controllers, Pagination)

NvmeControllerStats(in, rpc) ==
    IF in.Id = Nil
    THEN Fail("ValidationError", <<>>)
    ELSE IF ~resourcenameValidate(in.Id.Value)
    THEN Fail("ValidationError", <<>>)
    ELSE IF in.Id.Value \notin DOMAIN Controllers
    THEN Fail("Error", <<>>)
    ELSE
      LET controller == Controllers[in.Id.Value]
          subsys == SubsystemLookup(controller.Spec.SubsystemId.Value)
          params == [Subnqn |-> subsys.Nqn, CtrlrID |-> controller.Spec.NvmeControllerId]
          call == Call(StatsProcedure, params, rpc)
      IN
        IF ~subsys.ok
        THEN Fail("NotFound", <<>>)
        ELSE IF rpc.err
        THEN Fail("Transport", <<call>>)
        ELSE IF rpc.result.Status # 0
        THEN Fail("InvalidArgument", <<call>>)
        ELSE Ret("OK",
                 [Stats |-> [ReadBytesCount |-> Int32(rpc.result.NumReadBytes),
                             ReadOpsCount |-> Int32(rpc.result.NumReadCmds),
                             WriteBytesCount |-> Int32(rpc.result.NumWriteBytes),
                             WriteOpsCount |-> Int32(rpc.result.NumWriteCmds),
                             ReadLatencyTicks |-> Int32(rpc.result.TotalReadLatencyInUs),
                             WriteLatencyTicks |-> Int32(rpc.result.TotalWriteLatencyInUs)]],
                 <<call>>, Controllers, Pagination)

----------------------------------------------------------------------------
(* The state machine *)

NoChain == [open |-> FALSE]

\* the two requests that may run concurrently
Procs == {"p1", "p2"}

Idle == [pc |-> "idle"]

conc == <<procs, rpcLog>>

Served(op, in, r) == [op |-> op, req |-> in, err |-> r.err, resp |-> r.resp, calls |-> r.calls]

Init ==
    /\ Controllers = <<>>
    /\ Subsystems = <<>>
    /\ Pagination = <<>>
    /\ nGen = 0
    /\ last = [op |-> "Init", req |-> Nil, err |-> "OK", resp |-> Nil, calls |-> <<>>]
    /\ hist = [n \in {} |-> "none"]
    /\ chain = NoChain
    /\ assigned = <<>>
    /\ procs = [p \in Procs |-> Idle]
    /\ rpcLog = <<>>

\* the subsystem registry (another service of the same server) adds a subsystem
AddSubsystem ==
    \E key \in SubsystemKeys \ DOMAIN Subsystems :
        /\ Subsystems' = [k \in DOMAIN Subsystems \cup {key} |->
                             IF k = key THEN NvmeSubsystem(key) ELSE Subsystems[k]]
        /\ last' = [op |-> "AddSubsystem", req |-> [Name |-> key], err |-> "OK", resp |-> Nil, calls |-> <<>>]
        /\ chain' = NoChain
        /\ UNCHANGED <<Controllers, Pagination, nGen, hist, assigned, conc>>

\* the subsystem registry deletes a subsystem
RemoveSubsystem ==
    \E key \in DOMAIN Subsystems :
        /\ Subsystems' = [k \in DOMAIN Subsystems \ {key} |-> Subsystems[k]]
        /\ last' = [op |-> "RemoveSubsystem", req |-> [Name |-> key], err |-> "OK", resp |-> Nil, calls |-> <<>>]
        /\ chain' = NoChain
        /\ UNCHANGED <<Controllers, Pagination, nGen, hist, assigned, conc>>

\* the handler's backend call completed with status 0 and the request succeeded
CallOK(r) == r.err = "OK" /\ r.calls # <<>>

AssignedSet(name, CtrlrID) ==
    [n \in DOMAIN assigned \cup {name} |-> IF n = name THEN CtrlrID ELSE assigned[n]]

HistSet(name, what) ==
    [n \in DOMAIN hist \cup {name} |-> IF n = name THEN what ELSE hist[n]]

\* the backend answers only a handler that calls it: quiet is the handler's
\* call log when the channel fails, empty exactly when it makes no call
Answers(outcomes, quiet) == IF quiet = <<>> THEN {RpcErr} ELSE outcomes

Create ==
    \E in \in CreateRequests :
        /\ in.NvmeControllerId = "" => nGen < MaxGen
        /\ LET gen == IF nGen < MaxGen THEN GenName(nGen + 1) ELSE ""
           IN \E rpc \in Answers(CreateCtrlrOutcomes, CreateNvmeController(in, gen, RpcErr).calls) :
                LET r == CreateNvmeController(in, gen, rpc)
                IN /\ Controllers' = r.ctrls
                   /\ Pagination' = r.pag
                   /\ nGen' = IF in.NvmeControllerId = "" /\ r.ctrls # Controllers
                              THEN nGen + 1 ELSE nGen
                   /\ last' = Served("Create", in, r)
                   /\ hist' = IF r.err = "OK" THEN HistSet(CreateName(in, gen), "create") ELSE hist
                   /\ assigned' = IF CallOK(r)
                                   THEN AssignedSet(CreateName(in, gen), rpc.result.CtrlrID)
                                   ELSE assigned
        /\ chain' = NoChain
        /\ UNCHANGED <<Subsystems, conc>>

Delete ==
    \E in \in DeleteRequests :
        \E rpc \in Answers(RemoveCtrlrOutcomes, DeleteNvmeController(in, RpcErr).calls) :
            /\ LET r == DeleteNvmeController(in, rpc)
               IN /\ Controllers' = r.ctrls
                  /\ Pagination' = r.pag
                  /\ last' = Served("Delete", in, r)
                  /\ hist' = IF r.err = "OK" THEN HistSet(in.Name, "delete") ELSE hist
                  /\ assigned' = IF CallOK(r)
                                  THEN [n \in DOMAIN assigned \ {in.Name} |-> assigned[n]]
                                  ELSE assigned
            /\ chain' = NoChain
            /\ UNCHANGED <<Subsystems, nGen, conc>>

Update ==
    \E in \in UpdateRequests :
        \E rpc \in Answers(CreateCtrlrOutcomes, UpdateNvmeController(in, RpcErr).calls) :
            /\ LET r == UpdateNvmeController(in, rpc)
               IN /\ Controllers' = r.ctrls
                  /\ Pagination' = r.pag
                  /\ last' = Served("Update", in, r)
                  /\ assigned' = IF CallOK(r)
                                  THEN AssignedSet(in.NvmeController.Name, rpc.result.CtrlrID)
                                  ELSE assigned
            /\ chain' = NoChain
            /\ UNCHANGED <<Subsystems, nGen, hist, conc>>

\* the chain of List calls a client follows: a request without page token
\* starts one, a request carrying the chain's next-page token (same parent,
\* same page size, same backend list) continues it
ChainAfter(in, rpc, r) ==
    LET ids == [i \in 1..Len(r.resp.NvmeControllers) |-> r.resp.NvmeControllers[i].Spec.NvmeControllerId]
    IN IF r.err # "OK"
       THEN NoChain
       ELSE IF in.PageToken = ""
       THEN [open |-> TRUE, parent |-> in.Parent, size |-> in.PageSize,
             list |-> rpc.result.CtrlrIDList, got |-> ids, next |-> r.resp.NextPageToken]
       ELSE IF chain.open /\ chain.next # "" /\ in.PageToken = chain.next
               /\ in.Parent = chain.parent /\ in.PageSize = chain.size
               /\ rpc.result.CtrlrIDList = chain.list
       THEN [chain EXCEPT !.got = chain.got \o ids, !.next = r.resp.NextPageToken]
       ELSE NoChain

ListWith(requests, outcomes) ==
    \E in \in requests :
        \E rpc \in Answers(outcomes, ListNvmeControllers(in, RpcErr).calls) :
            /\ LET r == ListNvmeControllers(in, rpc)
               IN /\ Cardinality(DOMAIN r.pag) <= MaxTokens
                  /\ Controllers' = r.ctrls
                  /\ Pagination' = r.pag
                  /\ last' = Served("List", in, r)
                  /\ chain' = ChainAfter(in, rpc, r)
            /\ UNCHANGED <<Subsystems, nGen, hist, assigned, conc>>

List == ListWith(ListRequests, TwoCtrlrListOutcomes)

ListPages == ListWith(PageRequests, GetCtrlrListOutcomes)

Get ==
    \E in \in GetRequests :
        \E rpc \in Answers(GetCtrlrInfoOutcomes, GetNvmeController(in, RpcErr).calls) :
            /\ LET r == GetNvmeController(in, rpc)
               IN /\ Controllers' = r.ctrls
                  /\ Pagination' = r.pag
                  /\ last' = Served("Get", in, r)
            /\ chain' = NoChain
            /\ UNCHANGED <<Subsystems, nGen, hist, assigned, conc>>

Stats ==
    \E in \in StatsRequests :
        \E rpc \in Answers(GetCtrlrStatsOutcomes, NvmeControllerStats(in, RpcErr).calls) :
            /\ LET r == NvmeControllerStats(in, rpc)
               IN /\ Controllers' = r.ctrls
                  /\ Pagination' = r.pag
                  /\ last' = Served("Stats", in, r)
            /\ chain' = NoChain
            /\ UNCHANGED <<Subsystems, nGen, hist, assigned, conc>>

Next ==
    \/ AddSubsystem
    \/ RemoveSubsystem
    \/ Create
    \/ Delete
    \/ Update
    \/ List
    \/ Get
    \/ Stats

Spec == Init /\ [][Next]_vars

\* the pagination specification: List alone, with every page size and every
\* backend list, while subsystems come and go
NextList ==
    \/ AddSubsystem
    \/ RemoveSubsystem
    \/ ListPages

SpecList == Init /\ [][NextList]_vars

----------------------------------------------------------------------------
(* Two requests in flight. gRPC serves each request on a goroutine of its   *)
(* own and the handlers take no lock, so the steps of two handlers           *)
(* interleave: the lookup in s.Controllers, the backend call, and the write  *)
(* to s.Controllers.                                                         *)

\* the requests of the two goroutines: a Create and a Delete of one name
ConcRequests ==
    {[op |-> "Create",
      in |-> [NvmeControllerId |-> "a",
              NvmeController |-> [Name |-> "ignored", Spec |-> NvmeControllerSpec("subsys0"),
                                  Status |-> [Active |-> FALSE]]]],
     [op |-> "Delete", in |-> [Name |-> ResourceIDToVolumeName("a"), AllowMissing |-> FALSE]]}

\* a goroutine that has returned
Done(proc, err, resp) == [proc EXCEPT !.pc = "done", !.err = err, !.resp = resp]

\* a request arrives and passes the checks of its fields
Start ==
    \E p \in Procs, req \in ConcRequests :
        /\ procs[p].pc = "idle"
        /\ procs' = [procs EXCEPT ![p] = [pc |-> "lookup", op |-> req.op, in |-> req.in,
                                          controller |-> Nil, rpc |-> Nil, err |-> "", resp |-> Nil]]
        /\ UNCHANGED <<Controllers, Subsystems, Pagination, nGen, last, hist, chain, assigned, rpcLog>>

\* Create looks the name up, then the subsystem
ConcCreateLookup ==
    \E p \in Procs :
        /\ procs[p].pc = "lookup" /\ procs[p].op = "Create"
        /\ LET in == procs[p].in
               name == CreateName(in, "")
               subsys == SubsystemLookup(in.NvmeController.Spec.SubsystemId.Value)
           IN procs' = [procs EXCEPT ![p] =
                           IF name \in DOMAIN Controllers THEN Done(@, "OK", Controllers[name])
                           ELSE IF ~subsys.ok THEN Done(@, "NotFound", Nil)
                           ELSE [@ EXCEPT !.pc = "call"]]
        /\ UNCHANGED <<Controllers, Subsystems, Pagination, nGen, last, hist, chain, assigned, rpcLog>>

\* Create calls the backend
ConcCreateCall ==
    \E p \in Procs, rpc \in CreateCtrlrOutcomes :
        /\ procs[p].pc = "call" /\ procs[p].op = "Create"
        /\ LET in == procs[p].in
               subsys == SubsystemLookup(in.NvmeController.Spec.SubsystemId.Value)
               call == Call(CreateProcedure, CreateCtrlrParams(subsys, in.NvmeController.Spec), rpc)
           IN /\ rpcLog' = Append(rpcLog, call)
              /\ procs' = [procs EXCEPT ![p] =
                              IF rpc.err THEN Done(@, "Transport", Nil)
                              ELSE IF rpc.result.Status # 0 THEN Done(@, "InvalidArgument", Nil)
                              ELSE [@ EXCEPT !.pc = "store", !.rpc = rpc]]
        /\ UNCHANGED <<Controllers, Subsystems, Pagination, nGen, last, hist, chain, assigned>>

\* Create stores the clone under the name and returns it
ConcCreateStore ==
    \E p \in Procs :
        /\ procs[p].pc = "store" /\ procs[p].op = "Create"
        /\ LET in == procs[p].in
               name == CreateName(in, "")
               response == ActiveClone([in.NvmeController EXCEPT !.Name = name],
                                       procs[p].rpc.result.CtrlrID)
           IN /\ Controllers' = StoreController(Controllers, name, response)
              /\ assigned' = AssignedSet(name, procs[p].rpc.result.CtrlrID)
              /\ procs' = [procs EXCEPT ![p] = Done(@, "OK", response)]
        /\ UNCHANGED <<Subsystems, Pagination, nGen, last, hist, chain, rpcLog>>

\* Delete looks the name up, then the subsystem of the controller found
ConcDeleteLookup ==
    \E p \in Procs :
        /\ procs[p].pc = "lookup" /\ procs[p].op = "Delete"
        /\ LET in == procs[p].in
               missing == DeleteMissing(in)
           IN procs' = [procs EXCEPT ![p] =
                           IF in.Name \notin DOMAIN Controllers
                           THEN Done(@, missing.err, missing.resp)
                           ELSE IF ~SubsystemLookup(Controllers[in.Name].Spec.SubsystemId.Value).ok
                           THEN Done(@, "NotFound", Nil)
                           ELSE [@ EXCEPT !.pc = "call", !.controller = Controllers[in.Name]]]
        /\ UNCHANGED <<Controllers, Subsystems, Pagination, nGen, last, hist, chain, assigned, rpcLog>>

\* Delete calls the backend with the id of the controller it found
ConcDeleteCall ==
    \E p \in Procs, rpc \in RemoveCtrlrOutcomes :
        /\ procs[p].pc = "call" /\ procs[p].op = "Delete"
        /\ LET controller == procs[p].controller
               subsys == SubsystemLookup(controller.Spec.SubsystemId.Value)
               params == [Subnqn |-> subsys.Nqn, CtrlrID |-> controller.Spec.NvmeControllerId,
                          Force |-> 1]
               call == Call(RemoveProcedure, params, rpc)
           IN /\ rpcLog' = Append(rpcLog, call)
              /\ procs' = [procs EXCEPT ![p] =
                              IF rpc.err THEN Done(@, "Transport", Nil)
                              ELSE IF rpc.result.Status # 0 THEN Done(@, "InvalidArgument", Nil)
                              ELSE [@ EXCEPT !.pc = "store", !.rpc = rpc]]
        /\ UNCHANGED <<Controllers, Subsystems, Pagination, nGen, last, hist, chain, assigned>>

\* Delete removes the name of the controller it found
ConcDeleteStore ==
    \E p \in Procs :
        /\ procs[p].pc = "store" /\ procs[p].op = "Delete"
        /\ Controllers' = RemoveController(Controllers, procs[p].controller.Name)
        /\ assigned' = [n \in DOMAIN assigned \ {procs[p].controller.Name} |-> assigned[n]]
        /\ procs' = [procs EXCEPT ![p] = Done(@, "OK", [kind |-> "Empty"])]
        /\ UNCHANGED <<Subsystems, Pagination, nGen, last, hist, chain, rpcLog>>

\* s.Controllers is a plain Go map: when one goroutine is at its write while
\* the other is at a lookup or a write of the same map, the accesses either
\* fall one after the other (the steps above) or the runtime detects them
\* and ends the process with a fatal error
ConcurrentMapFault ==
    \E p \in Procs, q \in Procs :
        /\ p # q
        /\ procs[p].pc = "store"
        /\ procs[q].pc \in {"lookup", "store"}
        /\ procs' = [r \in Procs |-> [procs[r] EXCEPT !.pc = "fatal"]]
        /\ UNCHANGED <<Controllers, Subsystems, Pagination, nGen, last, hist, chain, assigned, rpcLog>>

NextConc ==
    \/ AddSubsystem
    \/ Start
    \/ ConcCreateLookup
    \/ ConcCreateCall
    \/ ConcCreateStore
    \/ ConcDeleteLookup
    \/ ConcDeleteCall
    \/ ConcDeleteStore
    \/ ConcurrentMapFault

SpecConc == Init /\ [][NextConc]_vars

----------------------------------------------------------------------------
(* Properties *)

Requests == {"Create", "Delete", "Update", "List", "Get", "Stats"}

\* the backend call of a served request completed with status 0
CallSucceeded(served) ==
    /\ served.calls # <<>>
    /\ ~served.calls[Len(served.calls)].err
    /\ served.calls[Len(served.calls)].result.Status = 0

\* a Create request that passes the field and id checks and names its resource id
WellFormedCreate(req) ==
    /\ req.NvmeController # Nil
    /\ req.NvmeController.Spec # Nil
    /\ req.NvmeController.Spec.SubsystemId.Value # ""
    /\ req.NvmeControllerId = "a"

\* C1: a request that returns an error leaves the controller map and the cursor
\* table as they were, and either of them changes only in a step whose backend
\* call completed with status 0.
C1_NoPartialMutation ==
    [][/\ (last'.op \in Requests /\ last'.err # "OK")
            => (Controllers' = Controllers /\ Pagination' = Pagination)
       /\ (Controllers' # Controllers \/ Pagination' # Pagination)
            => (last'.op \in Requests /\ CallSucceeded(last'))]_vars

\* a Delete of a registered controller was refused by the backend
C1_Witness ==
    /\ last.op = "Delete"
    /\ last.err = "InvalidArgument"
    /\ last.calls # <<>>
    /\ last.req.Name \in DOMAIN Controllers

\* C2: a well-formed Create whose canonical name is already registered returns
\* the stored object, calls no backend procedure and leaves the registry alone,
\* whatever subsystem its payload names.
C2_CreateReplay ==
    [][(/\ last'.op = "Create"
        /\ WellFormedCreate(last'.req)
        /\ "//storage.opiproject.org/volumes/a" \in DOMAIN Controllers)
          => /\ last'.err = "OK"
             /\ last'.resp = Controllers["//storage.opiproject.org/volumes/a"]
             /\ last'.calls = <<>>
             /\ Controllers' = Controllers
             /\ Pagination' = Pagination]_vars

\* a Create was replayed with a payload naming a subsystem other than the stored
\* one, and one that does not exist
C2_Witness ==
    /\ last.op = "Create"
    /\ last.err = "OK"
    /\ last.calls = <<>>
    /\ last.req.NvmeController.Spec.SubsystemId.Value \notin DOMAIN Subsystems
    /\ last.req.NvmeController.Spec.SubsystemId # last.resp.Spec.SubsystemId

\* two Create calls in a row with the same explicit id and payload
SameCreateTwice ==
    /\ last.op = "Create"
    /\ last'.op = "Create"
    /\ last'.req = last.req
    /\ last.req.NvmeControllerId # ""

\* C3 as stated: the two calls return the same and call the backend create
\* procedure at most once between them, whatever the backend answered first.
C3_Original ==
    [][SameCreateTwice
          => /\ last'.err = last.err
             /\ last'.resp = last.resp
             /\ Len(last.calls) + Len(last'.calls) <= 1]_vars

\* C3 amended: the same, provided the backend did not fail the first call.
C3_Idempotence ==
    [][(SameCreateTwice /\ (last.calls = <<>> \/ last.err = "OK"))
          => /\ last'.err = last.err
             /\ last'.resp = last.resp
             /\ Len(last.calls) + Len(last'.calls) <= 1]_vars

\* the second of two Creates returned the object the first one stored, which
\* carries the backend's controller id 7 and not the requested id 1
C3_Witness ==
    /\ last.op = "Create"
    /\ last.req.NvmeControllerId = "a"
    /\ last.err = "OK"
    /\ last.calls = <<>>
    /\ last.resp.Spec.NvmeControllerId = 7
    /\ last.req.NvmeController.Spec.NvmeControllerId = 1

\* the served request passed validation and its subsystem reference (of the
\* payload for Create and Update, of the stored controller for Get and Stats)
\* is not in the subsystem registry
Dangling(served, registered) ==
    \/ /\ served.op = "Create"
       /\ served.req.NvmeController # Nil
       /\ served.req.NvmeController.Spec # Nil
       /\ served.req.NvmeController.Spec.SubsystemId.Value # ""
       /\ served.req.NvmeControllerId \in {"", "a"}
       /\ served.req.NvmeController.Spec.SubsystemId.Value \notin DOMAIN Subsystems
       /\ registered \/ served.req.NvmeControllerId = ""
             \/ "//storage.opiproject.org/volumes/a" \notin DOMAIN Controllers
    \/ /\ served.op = "Update"
       /\ served.req.NvmeController # Nil
       /\ served.req.NvmeController.Name # "bad name"
       /\ served.req.UpdateMask = <<"*">>
       /\ served.req.NvmeController.Spec.SubsystemId.Value \notin DOMAIN Subsystems
    \/ /\ served.op = "Get"
       /\ served.req.Name \in DOMAIN Controllers
       /\ Controllers[served.req.Name].Spec.SubsystemId.Value \notin DOMAIN Subsystems
    \/ /\ served.op = "Stats"
       /\ served.req.Id # Nil
       /\ served.req.Id.Value \in DOMAIN Controllers
       /\ Controllers[served.req.Id.Value].Spec.SubsystemId.Value \notin DOMAIN Subsystems

\* C4 as stated: such a request fails NotFound without backend call or registry
\* change, also a Create whose name is already registered.
C4_Original ==
    [][Dangling(last', TRUE)
          => /\ last'.err = "NotFound"
             /\ last'.calls = <<>>
             /\ Controllers' = Controllers
             /\ Pagination' = Pagination]_vars

\* C4 amended: the same, for Create only when its name is not yet registered.
C4_DanglingSubsystem ==
    [][Dangling(last', FALSE)
          => /\ last'.err = "NotFound"
             /\ last'.calls = <<>>
             /\ Controllers' = Controllers
             /\ Pagination' = Pagination]_vars

\* a Get found its controller registered under a subsystem that is gone
C4_Witness ==
    /\ last.op = "Get"
    /\ last.err = "NotFound"
    /\ last.req.Name \in DOMAIN Controllers
    /\ Controllers[last.req.Name].Spec.SubsystemId.Value \notin DOMAIN Subsystems

IsSorted(ids) == \A i \in 1..Len(ids) - 1 : ids[i] <= ids[i + 1]

RECURSIVE InsertId(_, _)
InsertId(x, sorted) ==
    IF sorted = <<>> THEN <<x>>
    ELSE IF x < Head(sorted) THEN <<x>> \o sorted
    ELSE <<Head(sorted)>> \o InsertId(x, Tail(sorted))

RECURSIVE SortIds(_)
SortIds(ids) == IF ids = <<>> THEN <<>> ELSE InsertId(Head(ids), SortIds(Tail(ids)))

\* C5: the ids a chain of List calls has returned are in ascending order, and
\* once a call of the chain returns an empty next-page token they are all the
\* ids of the backend's list, each once.
C5_ListChain ==
    chain.open =>
        /\ IsSorted(chain.got)
        /\ chain.next = "" =>
              chain.got = SortIds([i \in 1..Len(chain.list) |-> chain.list[i].CtrlrID.lo])

\* C6: a List that leaves elements beyond its window adds one cursor entry,
\* offset+size under a token not in the table, and returns that token as the
\* next-page token; otherwise it adds no entry and returns an empty token.
C6_NextPageToken ==
    [][(last'.op = "List" /\ last'.err = "OK")
          => LET page == ExtractPagination(last'.req.PageSize, last'.req.PageToken, Pagination)
                 list == last'.calls[1].result.CtrlrIDList
             IN IF page.offset + page.size < Len(list)
                THEN \E t \in Tokens \ DOMAIN Pagination :
                        /\ DOMAIN Pagination' = DOMAIN Pagination \cup {t}
                        /\ Pagination'[t] = page.offset + page.size
                        /\ \A u \in DOMAIN Pagination : Pagination'[u] = Pagination[u]
                        /\ last'.resp.NextPageToken = t
                ELSE /\ Pagination' = Pagination
                     /\ last'.resp.NextPageToken = ""]_vars

\* C7: a Delete of a name that is not registered calls no backend procedure and
\* changes nothing; with a well-formed name it succeeds exactly when
\* allow-missing is set.
C7_DeleteMissing ==
    [][(last'.op = "Delete" /\ last'.req.Name \notin DOMAIN Controllers)
          => /\ last'.calls = <<>>
             /\ Controllers' = Controllers
             /\ Pagination' = Pagination
             /\ last'.req.Name \notin {"", "bad name"}
                   => (last'.err = "OK" <=> last'.req.AllowMissing)]_vars

\* a Delete with allow-missing succeeded on an unregistered name while another
\* controller was registered
C7_Witness ==
    /\ last.op = "Delete"
    /\ last.req.AllowMissing
    /\ last.err = "OK"
    /\ last.calls = <<>>
    /\ Controllers # <<>>

\* C8: a Delete of a registered name removes that entry and no other, exactly
\* when its backend call completed with status 0, and otherwise leaves the
\* registry as it was; a name is registered exactly when the latest successful
\* Create or Delete on it was a Create.
C8_DeleteRemoves ==
    /\ [][(last'.op = "Delete" /\ last'.req.Name \in DOMAIN Controllers)
            => IF CallSucceeded(last')
               THEN /\ last'.err = "OK"
                    /\ DOMAIN Controllers' = DOMAIN Controllers \ {last'.req.Name}
                    /\ \A n \in DOMAIN Controllers' : Controllers'[n] = Controllers[n]
               ELSE /\ last'.err # "OK"
                    /\ Controllers' = Controllers]_vars
    /\ [](\A n \in ControllerNames :
            n \in DOMAIN Controllers <=> (n \in DOMAIN hist /\ hist[n] = "create"))

\* a controller was created and deleted again while another one stays registered
C8_Witness ==
    /\ last.op = "Delete"
    /\ CallSucceeded(last)
    /\ hist[last.req.Name] = "delete"
    /\ last.req.Name \notin DOMAIN Controllers
    /\ Controllers # <<>>

\* C9: while a name stays registered, the subsystem reference stored for it
\* does not change.
C9_SubsystemFixed ==
    [][\A n \in DOMAIN Controllers \cap DOMAIN Controllers' :
          Controllers'[n].Spec.SubsystemId = Controllers[n].Spec.SubsystemId]_vars

\* the backend calls of the latest request all name the procedure proc
Sends(proc) == \A i \in 1..Len(last.calls) : last.calls[i].method = proc

----------------------------------------------------------------------------
\* C11: backend result translation. Whenever a request reached its backend
\* call, it made exactly one call (no retry); if that call failed in
\* transport the request returns the transport error itself, and if it
\* completed with a non-zero status the request returns InvalidArgument;
\* a request that returns OK made a call that completed with status 0 or
\* made no call at all.
C11_ResultTranslation ==
    (last.op \in Requests /\ last.calls # <<>>) =>
        /\ Len(last.calls) = 1
        /\ last.calls[1].err => last.err = "Transport"
        /\ (~last.calls[1].err /\ last.calls[1].result.Status # 0) => last.err = "InvalidArgument"
        /\ last.err \in {"Transport", "InvalidArgument"} \/ CallSucceeded(last)

\* a Stats request whose backend call completed with a non-zero status
C11_Witness ==
    /\ last.op = "Stats"
    /\ last.calls # <<>>
    /\ ~last.calls[1].err
    /\ last.calls[1].result.Status # 0
    /\ last.err = "InvalidArgument"

----------------------------------------------------------------------------
\* C12: an Update whose request names a controller that is not registered
\* fails with NotFound, makes no backend call and leaves the registry as it
\* was, with the allow-missing flag set or not.
C12_UpdateMissing ==
    [][(/\ last'.op = "Update"
        /\ last'.req.NvmeController # Nil
        /\ resourcenameValidate(last'.req.NvmeController.Name)
        /\ last'.req.NvmeController.Name \notin DOMAIN Controllers)
       => (/\ last'.err = "NotFound"
           /\ last'.calls = <<>>
           /\ Controllers' = Controllers
           /\ Pagination' = Pagination)]_vars

\* an Update with the allow-missing flag set, of a name that is not registered
C12_Witness ==
    /\ last.op = "Update"
    /\ last.req.NvmeController # Nil
    /\ last.req.AllowMissing
    /\ last.req.NvmeController.Name \notin DOMAIN Controllers
    /\ last.err = "NotFound"
    /\ last.calls = <<>>

----------------------------------------------------------------------------
\* int(x) of an int32 x, as a Go int
Widen(i) == IF i >= 0 THEN GoInt(0, i) ELSE GoInt(-1, (i + 2147483647) + 1)

\* the spec fields of a controller other than the controller id
SpecButId(spec) == [f \in DOMAIN spec \ {"NvmeControllerId"} |-> spec[f]]

\* C13: when Update's backend call returns status 0, the entry at the
\* request's name becomes a copy of the request's controller (all its spec
\* fields, whatever the update mask) with the controller id the backend
\* returned and status active; no other entry changes, and that object is
\* the response.
C13_UpdateSuccess ==
    [][(last'.op = "Update" /\ CallSucceeded(last'))
       => LET controller == last'.req.NvmeController
              CtrlrID == last'.calls[1].result.CtrlrID
          IN /\ DOMAIN Controllers' = DOMAIN Controllers
             /\ \A n \in DOMAIN Controllers \ {controller.Name} : Controllers'[n] = Controllers[n]
             /\ Controllers'[controller.Name].Name = controller.Name
             /\ SpecButId(Controllers'[controller.Name].Spec) = SpecButId(controller.Spec)
             /\ Widen(Controllers'[controller.Name].Spec.NvmeControllerId) = CtrlrID
             /\ Controllers'[controller.Name].Status = [Active |-> TRUE]
             /\ last'.resp = Controllers'[controller.Name]]_vars

----------------------------------------------------------------------------
\* C14: when Create's backend call returns status 0 with controller id c
\* (the name was not registered and the subsystem resolved), Create adds
\* exactly one entry, under the canonical name, holding the request's spec
\* with controller id c and status active, and returns that object; with
\* c = 5 the stored and returned controller id is 5.
C14_CreateSuccess ==
    [][(last'.op = "Create" /\ CallSucceeded(last'))
       => LET controller == last'.req.NvmeController
              CtrlrID == last'.calls[1].result.CtrlrID
          IN \E name \in DOMAIN Controllers' \ DOMAIN Controllers :
                /\ DOMAIN Controllers' = DOMAIN Controllers \cup {name}
                /\ \A n \in DOMAIN Controllers : Controllers'[n] = Controllers[n]
                /\ last'.req.NvmeControllerId # ""
                      => name = ResourceIDToVolumeName(last'.req.NvmeControllerId)
                /\ Controllers'[name].Name = name
                /\ SpecButId(Controllers'[name].Spec) = SpecButId(controller.Spec)
                /\ Widen(Controllers'[name].Spec.NvmeControllerId) = CtrlrID
                /\ CtrlrID = GoInt(0, 5) => Controllers'[name].Spec.NvmeControllerId = 5
                /\ Controllers'[name].Status = [Active |-> TRUE]
                /\ last'.resp = Controllers'[name]]_vars

----------------------------------------------------------------------------
\* how often a value occurs in a sequence
Count(seq, v) == Cardinality({i \in DOMAIN seq : seq[i] = v})

\* a < b or a = b for two Go ints
GoIntLeq(a, b) == a.hi < b.hi \/ (a.hi = b.hi /\ a.lo <= b.lo)

\* C15: every List response is in ascending order of controller id, whatever
\* the order of the backend's ids in the page window and also when ids are
\* equal, and it holds exactly the ids of that window, each as often as the
\* window does.
C15_ListSorted ==
    (last.op = "List" /\ last.err = "OK") =>
        LET page == ExtractPagination(last.req.PageSize, last.req.PageToken, Pagination)
            window == LimitPagination(last.calls[1].result.CtrlrIDList, page.offset, page.size).list
            ids == [i \in 1..Len(last.resp.NvmeControllers) |->
                       Widen(last.resp.NvmeControllers[i].Spec.NvmeControllerId)]
        IN /\ \A i \in 1..Len(ids) - 1 : GoIntLeq(ids[i], ids[i + 1])
           /\ Len(ids) = Len(window)
           /\ \A i \in 1..Len(window) : Count(ids, window[i].CtrlrID) = Count(window, window[i])

----------------------------------------------------------------------------
\* the backend's possible answers to the call of a concurrent request
ConcOutcomes(proc) == IF proc.op = "Create" THEN CreateCtrlrOutcomes ELSE RemoveCtrlrOutcomes

\* one request of ConcRequests run alone on the registry ctrls, its subsystem
\* registered, the backend answering rpc: the registry it leaves, the calls
\* it makes and what it returns
SerialStep(ctrls, proc, rpc) ==
    LET name == ResourceIDToVolumeName("a")
        subsys == SubsystemLookup("subsys0")
        failed == rpc.err \/ rpc.result.Status # 0
    IN IF proc.op = "Create"
       THEN LET call == Call(CreateProcedure,
                             CreateCtrlrParams(subsys, proc.in.NvmeController.Spec), rpc)
                response == ActiveClone([proc.in.NvmeController EXCEPT !.Name = name],
                                        rpc.result.CtrlrID)
            IN IF name \in DOMAIN ctrls
               THEN [ctrls |-> ctrls, calls |-> <<>>, ok |-> TRUE, resp |-> ctrls[name]]
               ELSE IF failed
               THEN [ctrls |-> ctrls, calls |-> <<call>>, ok |-> FALSE, resp |-> Nil]
               ELSE [ctrls |-> StoreController(ctrls, name, response), calls |-> <<call>>,
                     ok |-> TRUE, resp |-> response]
       ELSE IF name \notin DOMAIN ctrls
       THEN [ctrls |-> ctrls, calls |-> <<>>, ok |-> proc.in.AllowMissing, resp |-> Nil]
       ELSE LET params == [Subnqn |-> subsys.Nqn,
                           CtrlrID |-> ctrls[name].Spec.NvmeControllerId, Force |-> 1]
                call == Call(RemoveProcedure, params, rpc)
            IN IF failed
               THEN [ctrls |-> ctrls, calls |-> <<call>>, ok |-> FALSE, resp |-> Nil]
               ELSE [ctrls |-> RemoveController(ctrls, name), calls |-> <<call>>,
                     ok |-> TRUE, resp |-> [kind |-> "Empty"]]

\* the two requests, both returned, each having found its subsystem
BothReturned ==
    \A p \in Procs : procs[p].pc = "done" /\ procs[p].err # "NotFound"

\* C16: when two requests on the same name run concurrently, lookup, backend
\* call and registry write being separate steps, the registry they leave and
\* the sequence of backend calls they make are those of the two requests run
\* one after the other in some order; and two concurrent Creates of a name
\* that was not registered, both successful, call the backend's create
\* procedure at most once and return the same object.
C16_SameNameSerial ==
    BothReturned =>
        /\ \E p \in Procs, q \in Procs :
              /\ p # q
              /\ \E rpc1 \in ConcOutcomes(procs[p]), rpc2 \in ConcOutcomes(procs[q]) :
                    LET first == SerialStep(<<>>, procs[p], rpc1)
                        second == SerialStep(first.ctrls, procs[q], rpc2)
                    IN /\ second.ctrls = Controllers
                       /\ first.calls \o second.calls = rpcLog
                       /\ first.ok = (procs[p].err = "OK")
                       /\ second.ok = (procs[q].err = "OK")
        /\ (\A p \in Procs : procs[p].op = "Create" /\ procs[p].err = "OK")
              => /\ Cardinality({i \in DOMAIN rpcLog : rpcLog[i].method = CreateProcedure}) <= 1
                 /\ \A p \in Procs, q \in Procs : procs[p].resp = procs[q].resp

----------------------------------------------------------------------------
\* stat is counter truncated to a signed 32-bit integer: it lies in
\* [-2^31, 2^31) and differs from counter by a multiple of 2^32
Truncated(stat, counter) ==
    /\ (-2147483647) - 1 <= stat /\ stat <= 2147483647
    /\ Widen(stat).lo = counter.lo
    /\ (Widen(stat).hi - counter.hi) % 2 = 0
    /\ counter.hi = 0 => stat = counter.lo

\* C17: when the backend answers a Stats call with status 0, each statistic
\* of the response is the backend's counter truncated to a signed 32-bit
\* integer: equal to it for counters in [0, 2^31), wrapped modulo 2^32
\* otherwise; NumReadBytes = 1024 and NumReadCmds = 4 give ReadBytesCount =
\* 1024 and ReadOpsCount = 4.
C17_StatsMapping ==
    (last.op = "Stats" /\ last.err = "OK") =>
        LET result == last.calls[1].result
            stats == last.resp.Stats
        IN /\ Truncated(stats.ReadBytesCount, result.NumReadBytes)
           /\ Truncated(stats.ReadOpsCount, result.NumReadCmds)
           /\ Truncated(stats.WriteBytesCount, result.NumWriteBytes)
           /\ Truncated(stats.WriteOpsCount, result.NumWriteCmds)
           /\ Truncated(stats.ReadLatencyTicks, result.TotalReadLatencyInUs)
           /\ Truncated(stats.WriteLatencyTicks, result.TotalWriteLatencyInUs)
           /\ result.NumReadBytes = GoInt(0, 1024) => stats.ReadBytesCount = 1024
           /\ result.NumReadCmds = GoInt(0, 4) => stats.ReadOpsCount = 4

\* a Stats answer with the counters of the example and with counters beyond
\* 2^31 and below 0, which wrap
C17_Witness ==
    /\ last.op = "Stats"
    /\ last.err = "OK"
    /\ last.calls[1].result.NumReadBytes = GoInt(0, 1024)
    /\ last.resp.Stats.ReadBytesCount = 1024
    /\ last.resp.Stats.ReadOpsCount = 4
    /\ last.calls[1].result.NumWriteBytes = GoInt(1, 0)
    /\ last.resp.Stats.WriteBytesCount = (-2147483647) - 1
    /\ last.resp.Stats.WriteOpsCount = 8
    /\ last.resp.Stats.WriteLatencyTicks = -2147483588

----------------------------------------------------------------------------
\* the resource name a Delete, Get or Stats request addresses
NameOf(served) == IF served.op = "Stats" THEN served.req.Id.Value ELSE served.req.Name

\* C18: for a registered name, the controller id that Delete, Get and Stats
\* pass to the backend, and the id Get returns (together with status active),
\* is the id the backend returned in the latest successful Create or Update
\* of that name.
C18_AssignedId ==
    [][(last'.op \in {"Delete", "Get", "Stats"} /\ last'.calls # <<>>)
       => /\ NameOf(last') \in DOMAIN assigned
          /\ Widen(last'.calls[1].params.CtrlrID) = assigned[NameOf(last')]
          /\ (last'.op = "Get" /\ last'.err = "OK")
                => /\ Widen(last'.resp.Spec.NvmeControllerId) = assigned[NameOf(last')]
                   /\ last'.resp.Status = [Active |-> TRUE]]_vars

----------------------------------------------------------------------------
----------------------------------------------------------------------------
\* every entry is stored under its own name, is active and names a subsystem
WellFormedRegistry ==
    \A n \in DOMAIN Controllers :
        /\ Controllers[n].Name = n
        /\ Controllers[n].Status = [Active |-> TRUE]
        /\ Controllers[n].Spec.SubsystemId.Value # ""

\* the entries a step writes: new names and names whose object changes
Written ==
    {n \in DOMAIN Controllers' : n \notin DOMAIN Controllers \/ Controllers'[n] # Controllers[n]}

\* C20: in every reachable state each entry of the controller map is stored
\* under the name the stored object carries, is active and has a non-empty
\* subsystem reference, which named a registered subsystem when the entry
\* was written; and a Delete whose backend call succeeds removes exactly the
\* entry of the request's name.
C20_RegistryWellFormed ==
    /\ []WellFormedRegistry
    /\ [][/\ \A n \in Written : Controllers'[n].Spec.SubsystemId.Value \in DOMAIN Subsystems
           /\ (last'.op = "Delete" /\ CallSucceeded(last'))
                 => /\ last'.req.Name \in DOMAIN Controllers
                    /\ Controllers' = [m \in DOMAIN Controllers \ {last'.req.Name} |->
                                           Controllers[m]]]_vars

\* a successful Delete of one of two registered controllers, the other of
\* which refers to a subsystem that has been removed since
C20_Witness ==
    /\ last.op = "Delete"
    /\ CallSucceeded(last)
    /\ last.req.Name \notin DOMAIN Controllers
    /\ \E n \in DOMAIN Controllers : Controllers[n].Spec.SubsystemId.Value \notin DOMAIN Subsystems

====
